---- MODULE Spec2Model ----
(***************************************************************************)
(* Model of microcli's command line core (src/cliparse.py):                *)
(*   parsearg / parseargs  - the tokenizer                                 *)
(*   matchargs             - the binder                                    *)
(* A Python str is a sequence of one-character strings, so that regular    *)
(* expression matching, str.replace and str.startswith are computed.       *)
(* A Python dict is a sequence of [key, val] entries with distinct keys,   *)
(* in insertion order (the order `for o in options` visits them).          *)
(***************************************************************************)
EXTENDS Integers, Sequences, FiniteSets, TLC

VARIABLES pc, argv, positionals, options, argspec, result, given

vars == <<pc, argv, positionals, options, argspec, result, given>>

(***************************************************************************)
(* Bounds of the model.                                                    *)
(***************************************************************************)
MaxArgv == 3
MaxPositionals == 3
MaxOptions == 2

(***************************************************************************)
(* Python values.  Records with different field names keep bool, str, int  *)
(* and the Void sentinel apart.                                            *)
(***************************************************************************)
PyTrue == [bool |-> TRUE]
PyFalse == [bool |-> FALSE]
PyStr(s) == [str |-> s]
PyInt(n) == [int |-> n]
Undefined == [void |-> "UNDEFINED"]
\* Python None as the first element of parsearg's tuple; a regex group that
\* matched is never empty, so the empty sequence is free to stand for None.
None == <<>>

(***************************************************************************)
(* Characters and the regular expressions of cliparse.py.                  *)
(***************************************************************************)
Letters ==
  {"a","b","c","d","e","f","g","h","i","j","k","l","m",
   "n","o","p","q","r","s","t","u","v","w","x","y","z",
   "A","B","C","D","E","F","G","H","I","J","K","L","M",
   "N","O","P","Q","R","S","T","U","V","W","X","Y","Z"}

\* the character class [-a-zA-Z]
NameChars == Letters \cup {"-"}

\* index of the last character of the longest run of characters of class cls
\* that starts at index i (i - 1 when arg[i] is not in cls): a greedy `cls*`
RECURSIVE RunEnd(_, _, _)
RunEnd(arg, i, cls) ==
  IF i <= Len(arg) /\ arg[i] \in cls THEN RunEnd(arg, i + 1, cls) ELSE i - 1

\* index of the last character `.+` takes from index i: `.` is any character
\* but a newline
RECURSIVE DotEnd(_, _)
DotEnd(arg, i) ==
  IF i <= Len(arg) /\ arg[i] # "\n" THEN DotEnd(arg, i + 1) ELSE i - 1

\* re.match anchors at the start of the string only; a match is the sequence
\* of its groups (m[1], m[2]), no match is the empty sequence
NoMatch == <<>>

shflag_p(arg) ==
  IF Len(arg) >= 2 /\ arg[1] = "-" /\ arg[2] \in Letters
  THEN << <<arg[2]>> >>
  ELSE NoMatch

lflag_p(arg) ==
  IF /\ Len(arg) >= 4
     /\ arg[1] = "-" /\ arg[2] = "-"
     /\ arg[3] \in Letters
     /\ arg[4] \in NameChars
  THEN << SubSeq(arg, 3, RunEnd(arg, 4, NameChars)) >>
  ELSE NoMatch

sharg_p(arg) ==
  IF /\ Len(arg) >= 4
     /\ arg[1] = "-"
     /\ arg[2] \in Letters
     /\ arg[3] = ":"
     /\ arg[4] # "\n"
  THEN << <<arg[2]>>, SubSeq(arg, 4, DotEnd(arg, 4)) >>
  ELSE NoMatch

larg_p(arg) ==
  IF /\ Len(arg) >= 4
     /\ arg[1] = "-" /\ arg[2] = "-"
     /\ arg[3] \in Letters
     /\ arg[4] \in NameChars
  THEN LET e == RunEnd(arg, 4, NameChars)
       IN  IF e + 2 <= Len(arg) /\ arg[e + 1] = "=" /\ arg[e + 2] # "\n"
           THEN << SubSeq(arg, 3, e), SubSeq(arg, e + 2, DotEnd(arg, e + 2)) >>
           ELSE NoMatch
  ELSE NoMatch

\* `a or b` on match objects: the first that matched
OrMatch(a, b) == IF a # NoMatch THEN a ELSE b

\* str.replace("-", "_")
ReplaceDash(s) == [i \in 1..Len(s) |-> IF s[i] = "-" THEN "_" ELSE s[i]]

(***************************************************************************)
(* parsearg: one token to (option name or None, value).                    *)
(***************************************************************************)
parsearg(arg) ==
  LET mflag == OrMatch(shflag_p(arg), lflag_p(arg))
      marg == OrMatch(sharg_p(arg), larg_p(arg))
  IN  IF mflag # NoMatch
      THEN [opt |-> ReplaceDash(mflag[1]), val |-> PyTrue]
      ELSE IF marg # NoMatch
      THEN [opt |-> ReplaceDash(marg[1]), val |-> PyStr(marg[2])]
      ELSE [opt |-> None, val |-> PyStr(arg)]

(***************************************************************************)
(* dict helpers: d[k] = v keeps the position of an existing key.           *)
(***************************************************************************)
DictKeys(d) == {d[i].key : i \in 1..Len(d)}

DictGet(d, k) == d[CHOOSE i \in 1..Len(d) : d[i].key = k].val

DictSet(d, k, v) ==
  IF k \in DictKeys(d)
  THEN [i \in 1..Len(d) |-> IF d[i].key = k THEN [key |-> k, val |-> v] ELSE d[i]]
  ELSE Append(d, [key |-> k, val |-> v])

(***************************************************************************)
(* parseargs: the loop over argv, as a left fold.                          *)
(***************************************************************************)
RECURSIVE parseargs_loop(_, _, _, _)
parseargs_loop(av, i, pos, opts) ==
  IF i > Len(av)
  THEN [positionals |-> pos, options |-> opts]
  ELSE LET t == parsearg(av[i])
       IN  IF t.opt = None
           THEN parseargs_loop(av, i + 1, Append(pos, t.val), opts)
           ELSE parseargs_loop(av, i + 1, pos, DictSet(opts, t.opt, t.val))

parseargs(av) == parseargs_loop(av, 1, <<>>, <<>>)

(***************************************************************************)
(* list helpers                                                            *)
(***************************************************************************)
Range(s) == {s[i] : i \in 1..Len(s)}

Last(s) == s[Len(s)]

\* list.pop() leaves the list without its last element
Front(s) == SubSeq(s, 1, Len(s) - 1)

\* reversed(s) / list.reverse()
Reverse(s) == [i \in 1..Len(s) |-> s[Len(s) + 1 - i]]

\* list.remove(x) for an x that is in the list: the first occurrence goes
ListRemove(s, x) ==
  LET i == CHOOSE j \in 1..Len(s) : s[j] = x /\ \A k \in 1..(j - 1) : s[k] # x
  IN  SubSeq(s, 1, i - 1) \o SubSeq(s, i + 1, Len(s))

\* s[:stop], Python's slice with a possibly negative stop
SliceTo(s, stop) ==
  LET e == IF stop < 0 THEN Len(s) + stop ELSE stop
  IN  SubSeq(s, 1, IF e < 0 THEN 0 ELSE IF e > Len(s) THEN Len(s) ELSE e)

\* u.startswith(o)
StartsWith(u, o) == Len(o) <= Len(u) /\ SubSeq(u, 1, Len(o)) = o

\* [x for x in s if P(x)], keeping the order of s
RECURSIVE SelectFrom(_, _, _)
SelectFrom(s, i, o) ==
  IF i > Len(s) THEN <<>>
  ELSE (IF StartsWith(s[i], o) THEN <<s[i]>> ELSE <<>>) \o SelectFrom(s, i + 1, o)

\* True counts as 1 in hasvargs + hasvarkw
BoolInt(b) == IF b THEN 1 ELSE 0

(***************************************************************************)
(* Argument kinds (micro_inspect.ArgKind).  AMBARG is POSARG | KWARG, a    *)
(* member of its own: it compares unequal to POSARG and to KWARG.          *)
(***************************************************************************)
PosArg == "POSARG"
KwArg == "KWARG"
Varg == "VARG"
VarKw == "VARKW"
AmbArg == "AMBARG"

Unknown == [void |-> "UNKNOWN"]

COMMON_FLAGS == { <<"d">>, <<"d","e","b","u","g">>, <<"h">>, <<"h","e","l","p">> }

(***************************************************************************)
(* iterargspec: one (name, type, default, kind, doc) tuple per declared    *)
(* parameter, in declaration order, each with its own kind.                *)
(***************************************************************************)
iterargspec(spec) ==
  [i \in 1..Len(spec.posxnames) |->
      <<spec.posxnames[i], Unknown, spec.defaults[spec.posxnames[i]], PosArg, Unknown>>]
  \o
  [i \in 1..Len(spec.ambnames) |->
      <<spec.ambnames[i], Unknown, spec.defaults[spec.ambnames[i]], AmbArg, Unknown>>]
  \o
  [i \in 1..Len(spec.kwxnames) |->
      <<spec.kwxnames[i], Unknown, spec.defaults[spec.kwxnames[i]], KwArg, Unknown>>]

\* sum(k == kind and d == Undefined for _, _, d, k, _ in iterargspec(argspec))
CountRequired(spec, kind) ==
  Cardinality({i \in 1..Len(iterargspec(spec)) :
                 iterargspec(spec)[i][4] = kind /\ iterargspec(spec)[i][3] = Undefined})

(***************************************************************************)
(* Return values of matchargs.                                             *)
(***************************************************************************)
Running == [kind |-> "none"]
Ok(p_out, kw_out) == [kind |-> "ok", p_out |-> p_out, kw_out |-> kw_out]
\* return None, msg;  `about` is what the message interpolates
Err(msg, about) == [kind |-> "error", msg |-> msg, about |-> about]
\* an exception that leaves matchargs
Raise(exc) == [kind |-> "raise", exc |-> exc]

InsufficientArguments == "insufficient arguments"
TooManyArguments == "too many arguments"
TooManyPositionals == "too many positionals"
MissingDefault == "missing default for"
NoMatchForOption == "Couldn't find unambiguos match for option"
CouldntMatchAll == "Couldn't match all"

(***************************************************************************)
(* matchargs, loop by loop.  st holds the locals of the call:              *)
(*   positionals (the caller's list, mutated in place), posnames,          *)
(*   unmatched, p_out, kw_out, and ret (Running until a return or raise).  *)
(***************************************************************************)
\* while positionals and posnames: ...
RECURSIVE match_positionals(_)
match_positionals(st) ==
  IF st.positionals # <<>> /\ st.posnames # <<>>
  THEN LET n == Last(st.posnames)
           st1 == [st EXCEPT !.p_out = Append(@, Last(st.positionals)),
                             !.positionals = Front(@),
                             !.posnames = Front(@)]
       IN  IF n \in Range(st1.unmatched)
           THEN match_positionals([st1 EXCEPT !.unmatched = ListRemove(@, n)])
           ELSE [st1 EXCEPT !.ret = Raise("ValueError")]
  ELSE st

\* if positionals: extend p_out with the rest, or fail
extend_vargs(st, hasvargs) ==
  IF st.positionals # <<>>
  THEN IF hasvargs
       THEN [st EXCEPT !.p_out = @ \o Reverse(st.positionals)]
       ELSE [st EXCEPT !.ret = Err(TooManyPositionals, <<>>)]
  ELSE st

\* for p in posnames: ... (posnames is not changed by the loop)
RECURSIVE fill_positional_defaults(_, _, _)
fill_positional_defaults(st, i, defaults) ==
  IF i > Len(st.posnames)
  THEN st
  ELSE LET p == st.posnames[i]
       IN  IF defaults[p] = Undefined
           THEN [st EXCEPT !.ret = Err(MissingDefault, p)]
           ELSE LET st1 == [st EXCEPT !.p_out = Append(@, defaults[p])]
                IN  IF p \in Range(st1.unmatched)
                    THEN fill_positional_defaults(
                           [st1 EXCEPT !.unmatched = ListRemove(@, p)], i + 1, defaults)
                    ELSE [st1 EXCEPT !.ret = Raise("ValueError")]

\* the body of `for o in options` for one option
match_option(st, o, val, hasvarkw) ==
  LET st1 == IF o \in COMMON_FLAGS
             THEN [st EXCEPT !.kw_out = DictSet(@, o, val)]
             ELSE st
      m == SelectFrom(st1.unmatched, 1, o)
  IN  IF o \in Range(st1.unmatched)
      THEN [st1 EXCEPT !.kw_out = DictSet(@, o, val),
                       !.unmatched = ListRemove(@, o)]
      ELSE IF Len(m) = 1
      THEN [st1 EXCEPT !.kw_out = DictSet(@, m[1], val),
                       !.unmatched = ListRemove(@, m[1])]
      ELSE IF hasvarkw
      THEN [st1 EXCEPT !.kw_out = DictSet(@, o, val)]
      ELSE [st1 EXCEPT !.ret = Err(NoMatchForOption, o)]

\* for o in options: ...
RECURSIVE match_options(_, _, _, _)
match_options(st, opts, i, hasvarkw) ==
  IF i > Len(opts) \/ st.ret # Running
  THEN st
  ELSE match_options(match_option(st, opts[i].key, opts[i].val, hasvarkw),
                     opts, i + 1, hasvarkw)

\* for u in unmatched: ... (unmatched is not changed by the loop)
RECURSIVE fill_named_defaults(_, _, _)
fill_named_defaults(st, i, defaults) ==
  IF i > Len(st.unmatched)
  THEN st
  ELSE LET u == st.unmatched[i]
       IN  IF defaults[u] = Undefined
           THEN [st EXCEPT !.ret = Err(CouldntMatchAll, st.unmatched)]
           ELSE fill_named_defaults([st EXCEPT !.kw_out = DictSet(@, u, defaults[u])],
                                    i + 1, defaults)

\* a step of the body that is skipped once the call has returned or raised
Then(st, next) == IF st.ret # Running THEN st ELSE next

\* the positional count compared one too low
too_few_off_by_one(npos_given, nkw_given, minpos, minkw) ==
  npos_given + 1 < minpos \/ nkw_given < minkw

\* if npos_given < minpos or nkw_given < minkw
too_few(npos_given, nkw_given, minpos, minkw) ==
  npos_given < minpos \/ nkw_given < minkw

\* if npos_given > maxpos and not hasvargs or nkw_given > maxkw and not hasvarkw
too_many(npos_given, nkw_given, maxpos, maxkw, hasvargs, hasvarkw) ==
  \/ (npos_given > maxpos /\ ~hasvargs)
  \/ (nkw_given > maxkw /\ ~hasvarkw)

(***************************************************************************)
(* matchargs(positionals, options, argspec): the value it returns (or the  *)
(* exception it raises) and the caller's positionals list after the call.  *)
(***************************************************************************)
matchargs(pos, opts, spec) ==
  LET npos_given == Len(pos)
      nkw_given == Len(opts)
      minpos == CountRequired(spec, PosArg)
      maxpos == spec.ambargco + minpos
      minkw == CountRequired(spec, KwArg)
      maxkw == minkw + spec.ambargco
      st0 == [positionals |-> Reverse(pos),
              posnames |-> Reverse(spec.posxnames \o spec.ambnames),
              unmatched |-> SliceTo(spec.names,
                                    -1 * (BoolInt(spec.hasvargs) + BoolInt(spec.hasvarkw))),
              p_out |-> <<>>,
              kw_out |-> <<>>,
              ret |-> Running]
      st1 == match_positionals(st0)
      st2 == Then(st1, extend_vargs(st1, spec.hasvargs))
      st3 == Then(st2, fill_positional_defaults(st2, 1, spec.defaults))
      st4 == Then(st3, match_options(st3, opts, 1, spec.hasvarkw))
      st5 == Then(st4, fill_named_defaults(st4, 1, spec.defaults))
  IN  IF too_few(npos_given, nkw_given, minpos, minkw)
      THEN [ret |-> Err(InsufficientArguments, <<>>), positionals |-> pos]
      ELSE IF too_many(npos_given, nkw_given, maxpos, maxkw, spec.hasvargs, spec.hasvarkw)
      THEN [ret |-> Err(TooManyArguments, <<>>), positionals |-> pos]
      ELSE [ret |-> IF st5.ret # Running THEN st5.ret ELSE Ok(st5.p_out, st5.kw_out),
            positionals |-> st5.positionals]

(***************************************************************************)
(* Inputs.  Parameter names, option names and tokens are spelled out as    *)
(* character sequences.                                                    *)
(***************************************************************************)
n_in_file == <<"i","n","_","f","i","l","e">>
n_out_file == <<"o","u","t","_","f","i","l","e">>
n_count == <<"c","o","u","n","t">>
n_create == <<"c","r","e","a","t","e">>
n_create_new == <<"c","r","e","a","t","e","_","n","e","w">>
n_create_dir == <<"c","r","e","a","t","e","_","d","i","r">>
n_create_file == <<"c","r","e","a","t","e","_","f","i","l","e">>
n_help == <<"h","e","l","p">>
n_d == <<"d">>
n_c == <<"c">>
n_x == <<"x">>
n_long_name == <<"l","o","n","g","_","n","a","m","e">>
\* the names of the *args and **kwargs parameters (microcli_example.main)
n_flags == <<"f","l","a","g","s">>
n_options == <<"o","p","t","i","o","n","s">>

tok_input == <<"i","n","p","u","t",".","t","x","t">>
tok_output == <<"o","u","t","p","u","t",".","t","x","t">>
tok_create_new == <<"-","-","c","r","e","a","t","e","-","n","e","w">>
tok_x_value == <<"-","x",":","v","a","l","u","e">>
tok_long_value == <<"-","-","l","o","n","g","-","n","a","m","e","=","v","a","l","u","e">>
tok_x == <<"-","x">>
tok_abc == <<"-","a","b","c">>

\* the default a parameter has when it has one: a different value per name
DefaultOf(n) ==
  CASE n = n_in_file -> PyStr(<<"i">>)
    [] n = n_out_file -> PyStr(<<"o">>)
    [] n = n_count -> PyInt(0)
    [] n = n_create -> PyInt(1)
    [] n = n_create_new -> PyFalse
    [] n = n_create_dir -> PyStr(<<"d">>)
    [] n = n_create_file -> PyStr(<<"f">>)

\* An argspec as matchargs reads it: names is co_varnames (positional-only,
\* then positional-or-keyword, then keyword-only, then *args, then **kwargs);
\* req is the set of parameters without a default.
MakeArgSpec(posx, amb, kwx, va, vk, req) ==
  [names |-> posx \o amb \o kwx
             \o (IF va THEN <<n_flags>> ELSE <<>>)
             \o (IF vk THEN <<n_options>> ELSE <<>>),
   posxnames |-> posx,
   ambnames |-> amb,
   kwxnames |-> kwx,
   ambargco |-> Len(amb),
   hasvargs |-> va,
   hasvarkw |-> vk,
   defaults |-> [n \in Range(posx \o amb \o kwx) |->
                   IF n \in req THEN Undefined ELSE DefaultOf(n)]]

PosxPool == { <<>>, <<n_in_file>>, <<n_in_file, n_out_file>> }
AmbPool == { <<>>, <<n_count>> }
KwxPool == { <<>>, <<n_create_new>>, <<n_create_dir, n_create_file>>,
             <<n_create, n_create_new>> }

\* Python rejects a parameter without a default after one with a default
\* among the positional parameters: the required ones are a prefix of them.
\* Keyword-only parameters take defaults in any combination.
ReqChoices(posx, amb, kwx) ==
  { Range(SubSeq(posx \o amb, 1, k)) \cup r :
      k \in 0..Len(posx \o amb), r \in SUBSET Range(kwx) }

ArgSpecs ==
  UNION { UNION { { MakeArgSpec(posx, amb, kwx, va, vk, req) :
                      req \in ReqChoices(posx, amb, kwx) } :
                  va \in BOOLEAN, vk \in BOOLEAN } :
          posx \in PosxPool, amb \in AmbPool, kwx \in KwxPool }

\* sequences over S of length at most n
SeqsUpTo(S, n) == UNION { [1..k -> S] : k \in 0..n }

\* argument vectors for parseargs
Tokens == { tok_input, tok_output, tok_create_new, tok_x_value, tok_long_value,
            tok_x, tok_abc }
Argvs == SeqsUpTo(Tokens, MaxArgv)

\* positionals handed to matchargs directly: the first k of a, b, c, ...
PosValues == << PyStr(<<"a">>), PyStr(<<"b">>), PyStr(<<"c">>), PyStr(<<"d">>),
                PyStr(<<"e">>) >>
PositionalLists == { SubSeq(PosValues, 1, k) : k \in 0..MaxPositionals }

\* options handed to matchargs directly: dicts of at most MaxOptions entries
OptionNames == { n_help, n_d, n_c, n_create, n_create_new, n_count }
OptionValues == { PyTrue, PyStr(<<"1">>) }
OptionDicts ==
  { d \in SeqsUpTo([key : OptionNames, val : OptionValues], MaxOptions) :
      \A i, j \in 1..Len(d) : i # j => d[i].key # d[j].key }

(***************************************************************************)
(* The state machine: a caller tokenizes an argument vector (ParseArgs) or *)
(* builds positionals and options itself (Supply), then binds them against *)
(* an argspec (MatchArgs).                                                 *)
(***************************************************************************)
NoSpec == MakeArgSpec(<<>>, <<>>, <<>>, FALSE, FALSE, {})

Init ==
  /\ pc = "start"
  /\ argv = <<>>
  /\ positionals = <<>>
  /\ options = <<>>
  /\ argspec = NoSpec
  /\ given = <<>>
  /\ result = Running

\* positionals, options = parseargs(argv)
ParseArgs ==
  /\ pc = "start"
  /\ \E av \in Argvs :
       /\ argv' = av
       /\ positionals' = parseargs(av).positionals
       /\ options' = parseargs(av).options
  /\ pc' = "parsed"
  /\ UNCHANGED <<argspec, result, given>>

\* the caller passes its own positionals and options
Supply ==
  /\ pc = "start"
  /\ \E p \in PositionalLists, o \in OptionDicts :
       /\ positionals' = p
       /\ options' = o
  /\ pc' = "supplied"
  /\ UNCHANGED <<argv, argspec, result, given>>

\* result = matchargs(positionals, options, argspec); the list positionals is
\* the caller's and is mutated in place; given records it as it was passed
MatchArgs ==
  /\ pc \in {"parsed", "supplied"}
  /\ \E spec \in ArgSpecs :
       /\ argspec' = spec
       /\ result' = matchargs(positionals, options, spec).ret
       /\ positionals' = matchargs(positionals, options, spec).positionals
  /\ given' = positionals
  /\ pc' = "bound"
  /\ UNCHANGED <<argv, options>>

Next == ParseArgs \/ Supply \/ MatchArgs

Spec == Init /\ [][Next]_vars

(***************************************************************************)
(* Vocabulary of the claims                                                *)
(***************************************************************************)
Bound == pc = "bound"

\* the PositionalOnly then Ambiguous parameters, in declaration order
PositionalParams(spec) == spec.posxnames \o spec.ambnames

HasDefault(spec, n) == spec.defaults[n] # Undefined

AllHaveDefaults(spec) == \A n \in DOMAIN spec.defaults : HasDefault(spec, n)

\* the dict d holds exactly the entries of the function f
DictIs(d, f) == DictKeys(d) = DOMAIN f /\ \A k \in DOMAIN f : DictGet(d, k) = f[k]

DictHas(d, k, v) == k \in DictKeys(d) /\ DictGet(d, k) = v

Failed(msg) == result.kind = "error" /\ result.msg = msg

\* [in_file: PositionalOnly, out_file: PositionalOnly, create_new: NamedOnly = False]
EndToEndSpec ==
  MakeArgSpec(<<n_in_file, n_out_file>>, <<>>, <<n_create_new>>, FALSE, FALSE,
              {n_in_file, n_out_file})

(***************************************************************************)
(* C1: end to end, the tokens input.txt output.txt --create-new tokenize   *)
(* to positionals [input.txt, output.txt] and options {create_new: True},  *)
(* and binding them against [in_file, out_file positional-only and         *)
(* required, create_new named-only with default False, no variadic]        *)
(* succeeds with the same positionals and named {create_new: True}.        *)
(***************************************************************************)
C1_EndToEnd ==
  (Bound /\ argv = <<tok_input, tok_output, tok_create_new>> /\ argspec = EndToEndSpec)
  => /\ given = <<PyStr(tok_input), PyStr(tok_output)>>
     /\ options = <<[key |-> n_create_new, val |-> PyTrue]>>
     /\ result.kind = "ok"
     /\ result.p_out = <<PyStr(tok_input), PyStr(tok_output)>>
     /\ DictIs(result.kw_out, [k \in {n_create_new} |-> PyTrue])

(***************************************************************************)
(* C2: the universal flags bypass the argspec.  Binding no positionals and *)
(* {help: True} against an argspec that declares no help parameter and     *)
(* whose parameters all have defaults succeeds with help = True in the     *)
(* named output; and an option named h, help, d or debug is never what a   *)
(* no-match failure is about, and is in the named output of a success.     *)
(***************************************************************************)
C2_UniversalFlags ==
  Bound =>
    /\ ( /\ given = <<>>
         /\ options = <<[key |-> n_help, val |-> PyTrue]>>
         /\ n_help \notin Range(argspec.names)
         /\ AllHaveDefaults(argspec) )
       => (result.kind = "ok" /\ DictHas(result.kw_out, n_help, PyTrue))
    /\ Failed(NoMatchForOption) => result.about \notin COMMON_FLAGS
    /\ result.kind = "ok" =>
         \A i \in 1..Len(options) :
           options[i].key \in COMMON_FLAGS
             => options[i].key \in DictKeys(result.kw_out)

(***************************************************************************)
(* C3: matchargs is total over its typed outcomes: every call ends by      *)
(* returning bound arguments or an error value, never by an exception.     *)
(***************************************************************************)
C3_Total == Bound => result.kind \in {"ok", "error"}

(***************************************************************************)
(* C4: default backfill.  On a successful bind with fewer positionals than *)
(* positional-capable parameters, position i of the positional output is   *)
(* the i-th given positional, or the default of the i-th declared          *)
(* positional-capable parameter when none was given for it.                *)
(***************************************************************************)
C4_DefaultBackfill ==
  (Bound /\ result.kind = "ok" /\ Len(given) < Len(PositionalParams(argspec)))
  => /\ Len(result.p_out) = Len(PositionalParams(argspec))
     /\ \A i \in 1..Len(PositionalParams(argspec)) :
          result.p_out[i] = IF i <= Len(given)
                            THEN given[i]
                            ELSE argspec.defaults[PositionalParams(argspec)[i]]

(***************************************************************************)
(* C5: arity lower bound.                                                  *)
(***************************************************************************)
\* PositionalOnly and Ambiguous parameters without a default
RequiredPositionalCapable(spec) ==
  {n \in Range(PositionalParams(spec)) : ~HasDefault(spec, n)}

\* PositionalOnly parameters without a default
RequiredPositionalOnly(spec) ==
  {n \in Range(spec.posxnames) : ~HasDefault(spec, n)}

\* C5 as stated: with fewer positionals than PositionalOnly and Ambiguous
\* parameters without a default, the bind fails with "insufficient arguments".
C5_LowerBoundAmbiguousCounted ==
  (Bound /\ Len(given) < Cardinality(RequiredPositionalCapable(argspec)))
  => Failed(InsufficientArguments)

\* C5 as amended: with fewer positionals than PositionalOnly parameters
\* without a default, the bind fails with "insufficient arguments".
C5_LowerBound ==
  (Bound /\ Len(given) < Cardinality(RequiredPositionalOnly(argspec)))
  => Failed(InsufficientArguments)

\* two required positional-only parameters, no variadic, bind([], {}, spec)
C5_Witness ==
  /\ Bound
  /\ argspec = MakeArgSpec(<<n_in_file, n_out_file>>, <<>>, <<>>, FALSE, FALSE,
                           {n_in_file, n_out_file})
  /\ given = <<>> /\ options = <<>>
  /\ Failed(InsufficientArguments)

(***************************************************************************)
(* C6: arity upper bound, inclusive.  Without a variadic-positional        *)
(* parameter the bind fails with the too-many error exactly when more      *)
(* positionals are given than maxPos (the required positional-only         *)
(* parameters plus the ambiguous ones).                                    *)
(***************************************************************************)
MaxPos(spec) == Cardinality(RequiredPositionalOnly(spec)) + Len(spec.ambnames)

C6_UpperBoundInclusive ==
  (Bound /\ ~argspec.hasvargs)
  => ( (Failed(TooManyArguments) \/ Failed(TooManyPositionals))
       <=> Len(given) > MaxPos(argspec) )

(***************************************************************************)
(* C7: variadic absorption.  With a variadic-positional parameter and more *)
(* positionals than positional-capable parameters the bind succeeds, and   *)
(* the positional output is the given positionals in input order: the      *)
(* leading ones for the declared parameters, the rest after them.  Stated  *)
(* for the binds whose options the named phase accepts: every option is    *)
(* the full name of a named-only parameter, and every named-only parameter *)
(* that no option names has a default.                                     *)
(***************************************************************************)
C7_VariadicAbsorption ==
  ( /\ Bound
    /\ argspec.hasvargs
    /\ Len(given) > Len(PositionalParams(argspec))
    /\ \A i \in 1..Len(options) : options[i].key \in Range(argspec.kwxnames)
    /\ \A n \in Range(argspec.kwxnames) :
         n \in DictKeys(options) \/ HasDefault(argspec, n) )
  => /\ result.kind = "ok"
     /\ Len(result.p_out) = Len(given)
     /\ \A i \in 1..Len(given) : result.p_out[i] = given[i]

(***************************************************************************)
(* C8: an ambiguous abbreviation is an error.  An option that equals no    *)
(* parameter name and is a prefix of two or more named-only parameters     *)
(* (all still unmatched when the options are visited) makes the bind fail, *)
(* with or without a variadic-named parameter.                             *)
(***************************************************************************)
C8_AmbiguousOptionFails ==
  (Bound /\ Len(options) = 1
         /\ options[1].key \notin Range(argspec.names)
         /\ Cardinality({n \in Range(argspec.kwxnames) :
                           StartsWith(n, options[1].key)}) >= 2)
  => result.kind = "error"

(***************************************************************************)
(* C9: option name resolution on a successful bind.  An option equal to a  *)
(* named-only parameter name is bound to it; otherwise an option that is a *)
(* prefix of exactly one named-only parameter is bound under that          *)
(* parameter's full name; and a parameter bound by the first of two        *)
(* options keeps that value: the second option does not bind it again.     *)
(***************************************************************************)
\* the named-only parameter that option name o resolves to, as a set
Resolves(spec, o) ==
  IF o \in Range(spec.kwxnames)
  THEN {o}
  ELSE IF Cardinality({n \in Range(spec.kwxnames) : StartsWith(n, o)}) = 1
  THEN {n \in Range(spec.kwxnames) : StartsWith(n, o)}
  ELSE {}

C9_OptionResolution ==
  (Bound /\ result.kind = "ok" /\ Len(options) >= 1)
  => \A n \in Resolves(argspec, options[1].key) :
       DictHas(result.kw_out, n, options[1].val)

(***************************************************************************)
(* C10: inline-value options.  The single token -x:value tokenizes to      *)
(* option x with the string value, and the single token --long-name=value  *)
(* to option long_name with the string value, not to the flag value True.  *)
(***************************************************************************)
\* t is two dashes, a letter, letters or dashes up to index e, "=", a value
LongInlineAt(t, e) ==
  /\ e >= 4 /\ e + 2 <= Len(t)
  /\ t[1] = "-" /\ t[2] = "-" /\ t[3] \in Letters
  /\ \A k \in 4..e : t[k] \in NameChars
  /\ t[e + 1] = "="

\* t is one dash, one letter, a colon, a value
ShortInline(t) ==
  Len(t) >= 4 /\ t[1] = "-" /\ t[2] \in Letters /\ t[3] = ":"

C10_InlineValues ==
  (pc = "parsed" /\ Len(argv) = 1)
  => /\ ShortInline(argv[1])
          => /\ positionals = <<>>
             /\ options = <<[key |-> <<argv[1][2]>>,
                             val |-> PyStr(SubSeq(argv[1], 4, Len(argv[1])))]>>
     /\ \A e \in 1..Len(argv[1]) :
          LongInlineAt(argv[1], e)
            => /\ positionals = <<>>
               /\ options = <<[key |-> ReplaceDash(SubSeq(argv[1], 3, e)),
                               val |-> PyStr(SubSeq(argv[1], e + 2, Len(argv[1])))]>>

(***************************************************************************)
(* The tokenizer on its own: parseargs applied to argument vectors over a  *)
(* wider pool of tokens, with no bind after it.                            *)
(***************************************************************************)
tok_x_eq_1 == <<"-","-","x","=","1">>
tok_x_eq_2 == <<"-","-","x","=","2">>
tok_x1 == <<"-","x","1">>
tok_ab_dot_c == <<"-","-","a","b",".","c">>

TokenizerTokens == Tokens \cup { tok_x_eq_1, tok_x_eq_2, tok_x1, tok_ab_dot_c }
TokenizerArgvs == SeqsUpTo(TokenizerTokens, MaxArgv)

\* positionals, options = parseargs(argv)
Tokenize ==
  /\ pc = "start"
  /\ \E av \in TokenizerArgvs :
       /\ argv' = av
       /\ positionals' = parseargs(av).positionals
       /\ options' = parseargs(av).options
  /\ pc' = "parsed"
  /\ UNCHANGED <<argspec, result, given>>

NextTokenizer == Tokenize

SpecTokenizer == Init /\ [][NextTokenizer]_vars

(***************************************************************************)
(* The four option shapes as the specification states them, each over the  *)
(* whole token.                                                            *)
(***************************************************************************)
\* one dash and exactly one letter
WholeShortFlag(t) == Len(t) = 2 /\ t[1] = "-" /\ t[2] \in Letters

\* two dashes, a letter, one or more letters or dashes, nothing else
WholeLongFlag(t) ==
  /\ Len(t) >= 4
  /\ t[1] = "-" /\ t[2] = "-" /\ t[3] \in Letters
  /\ \A k \in 4..Len(t) : t[k] \in NameChars

WholeLongInline(t) == \E e \in 1..Len(t) : LongInlineAt(t, e)

OptionShaped(t) ==
  WholeShortFlag(t) \/ WholeLongFlag(t) \/ ShortInline(t) \/ WholeLongInline(t)

\* the normalized option name and the value the stated shapes give a token
StatedName(t) ==
  IF WholeShortFlag(t) \/ ShortInline(t) THEN <<t[2]>>
  ELSE IF WholeLongFlag(t) THEN ReplaceDash(SubSeq(t, 3, Len(t)))
  ELSE ReplaceDash(SubSeq(t, 3, CHOOSE e \in 1..Len(t) : LongInlineAt(t, e)))

StatedValue(t) ==
  IF WholeShortFlag(t) \/ WholeLongFlag(t) THEN PyTrue
  ELSE IF ShortInline(t) THEN PyStr(SubSeq(t, 4, Len(t)))
  ELSE PyStr(SubSeq(t, (CHOOSE e \in 1..Len(t) : LongInlineAt(t, e)) + 2, Len(t)))

\* the tokens of av from index i on that have none of the four shapes
RECURSIVE StatedPositionals(_, _)
StatedPositionals(av, i) ==
  IF i > Len(av) THEN <<>>
  ELSE (IF OptionShaped(av[i]) THEN <<>> ELSE <<PyStr(av[i])>>)
       \o StatedPositionals(av, i + 1)

(***************************************************************************)
(* C11: last write wins.  When an option name occurs more than once in the *)
(* argument vector, options holds one entry for it, with the value of its  *)
(* last occurrence, a bare flag and a valued form alike; and the tokens    *)
(* --x=1 --x=2 tokenize to options {x: "2"} and no positionals.            *)
(***************************************************************************)
C11_LastWriteWins ==
  pc = "parsed" =>
    /\ \A i, j \in 1..Len(options) : i # j => options[i].key # options[j].key
    /\ \A i, j \in 1..Len(argv) :
         ( /\ i < j
           /\ OptionShaped(argv[i]) /\ OptionShaped(argv[j])
           /\ StatedName(argv[i]) = StatedName(argv[j])
           /\ \A k \in (j + 1)..Len(argv) :
                OptionShaped(argv[k]) => StatedName(argv[k]) # StatedName(argv[j]) )
         => DictHas(options, StatedName(argv[j]), StatedValue(argv[j]))
    /\ argv = <<tok_x_eq_1, tok_x_eq_2>>
         => /\ positionals = <<>>
            /\ options = <<[key |-> n_x, val |-> PyStr(<<"2">>)]>>

(***************************************************************************)
(* C12: classification is by the whole token.  The positionals are exactly *)
(* the tokens that have none of the four option shapes in full, verbatim   *)
(* and in input order, and only the option-shaped tokens add names to      *)
(* options.                                                                *)
(***************************************************************************)
C12_WholeTokenClassification ==
  pc = "parsed" =>
    /\ positionals = StatedPositionals(argv, 1)
    /\ DictKeys(options) =
         {StatedName(argv[i]) : i \in {k \in 1..Len(argv) : OptionShaped(argv[k])}}

(***************************************************************************)
(* C13: matchargs leaves its inputs unchanged.  After a call, however it   *)
(* ended, the caller's positionals list is as it was passed, and a second  *)
(* call with the caller's positionals, options and argspec ends as the     *)
(* first did.  (options and argspec are only read by matchargs.)           *)
(***************************************************************************)
C13_InputsUnchanged ==
  Bound =>
    /\ positionals = given
    /\ matchargs(positionals, options, argspec).ret = result

(***************************************************************************)
(* C14: an Ambiguous parameter that no positional consumed can be given by *)
(* name.  With exactly the positional-only parameters given positionally,  *)
(* one option naming the Ambiguous parameter count by its full name, and   *)
(* defaults for all named-only parameters, the bind succeeds with count    *)
(* bound to the option's value and not to its default, whether or not      *)
(* count has a default.                                                    *)
(***************************************************************************)
C14_AmbiguousByName ==
  ( /\ Bound
    /\ argspec.ambnames = <<n_count>>
    /\ Len(given) = Len(argspec.posxnames)
    /\ Len(options) = 1 /\ options[1].key = n_count
    /\ \A n \in Range(argspec.kwxnames) : HasDefault(argspec, n) )
  => /\ result.kind = "ok"
     /\ result.p_out = given
     /\ DictHas(result.kw_out, n_count, options[1].val)

====
